---- MODULE Spec2Model ----
(***************************************************************************)
(* Model of contracts/HFTRiskAnalysis_FHE.sol: the order-book registry,    *)
(* the risk assessment and the decryption request / callback protocol;     *)
(* and of submitRiskData in frontend/web/src/App.tsx (AppSpec).            *)
(*                                                                         *)
(* One action is one transaction.  A Solidity function is an operator      *)
(* from the contract state s (a record of the storage variables) to an     *)
(* outcome [err, st]; a call that reverts has the state it was entered     *)
(* with as its outcome, since the EVM discards every write of a reverted   *)
(* call.                                                                   *)
(* The homomorphic engine (FHE library) and the decryption oracle are      *)
(* outside the contract: whether an engine call succeeds and whether a     *)
(* proof verifies are inputs of the transaction.                           *)
(***************************************************************************)
EXTENDS Integers, Sequences, FiniteSets, TLC

\* Bound of the model: the calls that grow the storage, that is the ids handed
\* out by registerExchange plus the decryption requests made to the engine.
MaxCalls == 4

\* Bound of the specification with a fair oracle, FairSpec: as MaxCalls; smaller,
\* since liveness is checked on the whole state graph.
MaxFairCalls == 3

\* Bound of the frontend model: the runs of submitRiskData that are started.
MaxRuns == 3

Principals == {"alice", "bob"}

\* the browsers that run App.tsx against the same store
Clients == {"c1", "c2"}
ZeroAddress == "0x0"

(***************************************************************************)
(* euint32 / uint32: a 32-bit unsigned value, kept as two 16-bit limbs     *)
(* <<high, low>> so that 2^32 wrap-around is computed exactly.             *)
(***************************************************************************)
Limb == 65536

FHE_asEuint32(n) == <<n \div Limb, n % Limb>>

FHE_add(a, b) ==
    LET lo == a[2] + b[2]
        hi == a[1] + b[1] + (lo \div Limb)
    IN  <<hi % Limb, lo % Limb>>

FHE_sub(a, b) ==
    LET lo == a[2] - b[2]
        borrow == IF lo < 0 THEN 1 ELSE 0
        hi == a[1] - b[1] - borrow
    IN  <<(hi + Limb) % Limb, (lo + Limb) % Limb>>

\* the contract only multiplies and divides by constants below 2^16
FHE_mul(a, b) ==
    LET lo == a[2] * b[2]
        hi == a[1] * b[2] + (lo \div Limb)
    IN  <<hi % Limb, lo % Limb>>

FHE_div(a, b) ==
    LET rest == (a[1] % b[2]) * Limb + a[2]
    IN  <<a[1] \div b[2], rest \div b[2]>>

ZeroU32 == FHE_asEuint32(0)

\* a < b as 32-bit unsigned values
Less(a, b) == a[1] < b[1] \/ (a[1] = b[1] /\ a[2] < b[2])

(***************************************************************************)
(* Storage.  A mapping is a function whose domain is the set of keys that  *)
(* have been written; reading any other key yields the zero value.         *)
(***************************************************************************)
ZeroOrderBook ==
    [exchangeId |-> 0, encryptedBidOrders |-> ZeroU32, encryptedAskOrders |-> ZeroU32,
     encryptedOrderFlow |-> ZeroU32, encryptedVolatility |-> ZeroU32,
     timestamp |-> 0, exchange |-> ZeroAddress]

ZeroRiskAssessment ==
    [encryptedLiquidityImpact |-> ZeroU32, encryptedFlashCrashRisk |-> ZeroU32,
     encryptedMarketInstability |-> ZeroU32]

ZeroDecryptedAssessment ==
    [liquidityImpact |-> ZeroU32, flashCrashRisk |-> ZeroU32,
     marketInstability |-> ZeroU32, isRevealed |-> FALSE]

Read(m, k, zero) == IF k \in DOMAIN m THEN m[k] ELSE zero

Store(m, k, v) == (k :> v) @@ m

VARIABLES
    exchangeCount,          \* uint256 public exchangeCount
    orderBooks,             \* mapping(uint256 => EncryptedOrderBook)
    riskAssessments,        \* mapping(uint256 => RiskAssessment)
    decryptedAssessments,   \* mapping(uint256 => DecryptedAssessment)
    requestToExchangeId,    \* mapping(uint256 => uint256), requestId -> exchangeId
    decryptionRequests,     \* the engine's requests, in order; requestId r is entry r + 1
    blockTimestamp,         \* block.timestamp of the block the next submission runs in
    events,                 \* the contract's event log
    lastTx,                 \* the latest transaction: its call and its outcome
    store,                  \* App.tsx: the key-value store behind contract.setData / getData
    pc,                     \* App.tsx: where each client's submitRiskData stands
    dataId,                 \* App.tsx: const dataId of each client's current run
    keys,                   \* App.tsx: let keys of each client's current run
    transactionStatus,      \* App.tsx: transactionStatus.status of each client
    dataIdCount             \* the dataIds handed out so far; each run gets a fresh one

storage == <<exchangeCount, orderBooks, riskAssessments, decryptedAssessments,
             requestToExchangeId, decryptionRequests, blockTimestamp, events>>

appVars == <<store, pc, dataId, keys, transactionStatus, dataIdCount>>

vars == <<exchangeCount, orderBooks, riskAssessments, decryptedAssessments,
          requestToExchangeId, decryptionRequests, blockTimestamp, events, lastTx,
          store, pc, dataId, keys, transactionStatus, dataIdCount>>

\* the contract state as one record
Cur ==
    [exchangeCount |-> exchangeCount, orderBooks |-> orderBooks,
     riskAssessments |-> riskAssessments, decryptedAssessments |-> decryptedAssessments,
     requestToExchangeId |-> requestToExchangeId, decryptionRequests |-> decryptionRequests,
     blockTimestamp |-> blockTimestamp, events |-> events]

Ok(s) == [err |-> "ok", st |-> s]

Revert(s, reason) == [err |-> reason, st |-> s]

Event(name, exchangeId, exchange, timestamp) ==
    [name |-> name, exchangeId |-> exchangeId, exchange |-> exchange, timestamp |-> timestamp]

\* registerExchange without the increment
registerExchange_noIncrement(s, exchange) ==
    [ret |-> s.exchangeCount, st |-> s]

\* registerExchange with "exchangeCount = 1" for "exchangeCount += 1"
registerExchange_assignsOne(s, exchange) ==
    [ret |-> 1, st |-> [s EXCEPT !.exchangeCount = 1]]

(***************************************************************************)
(* registerExchange: advances the counter and returns the new value.       *)
(***************************************************************************)
registerExchange(s, exchange) ==
    [ret |-> s.exchangeCount + 1,
     st |-> [s EXCEPT !.exchangeCount = @ + 1]]

\* assessRisk with a checked subtraction, failing when bid < ask
assessRisk_checkedSub(s, exchangeId, engineOk) ==
    LET orderBook == Read(s.orderBooks, exchangeId, ZeroOrderBook)
        assessment ==
            [encryptedLiquidityImpact |->
                FHE_div(FHE_sub(orderBook.encryptedBidOrders, orderBook.encryptedAskOrders),
                        FHE_asEuint32(100)),
             encryptedFlashCrashRisk |->
                FHE_mul(orderBook.encryptedOrderFlow, FHE_asEuint32(2)),
             encryptedMarketInstability |->
                FHE_add(FHE_mul(orderBook.encryptedVolatility, FHE_asEuint32(3)),
                        FHE_div(orderBook.encryptedOrderFlow, FHE_asEuint32(5)))]
    IN  IF ~engineOk \/ Less(orderBook.encryptedBidOrders, orderBook.encryptedAskOrders)
        THEN Revert(s, "EngineFailure")
        ELSE Ok([s EXCEPT
                 !.riskAssessments = Store(@, exchangeId, assessment),
                 !.decryptedAssessments = Store(@, exchangeId, ZeroDecryptedAssessment),
                 !.events = Append(@, Event("RiskAnalysisCompleted", exchangeId, ZeroAddress, 0))])

\* assessRisk without the placeholder of the decrypted assessment
assessRisk_noPlaceholder(s, exchangeId, engineOk) ==
    LET orderBook == Read(s.orderBooks, exchangeId, ZeroOrderBook)
        assessment ==
            [encryptedLiquidityImpact |->
                FHE_div(FHE_sub(orderBook.encryptedBidOrders, orderBook.encryptedAskOrders),
                        FHE_asEuint32(100)),
             encryptedFlashCrashRisk |->
                FHE_mul(orderBook.encryptedOrderFlow, FHE_asEuint32(2)),
             encryptedMarketInstability |->
                FHE_add(FHE_mul(orderBook.encryptedVolatility, FHE_asEuint32(3)),
                        FHE_div(orderBook.encryptedOrderFlow, FHE_asEuint32(5)))]
    IN  IF ~engineOk
        THEN Revert(s, "EngineFailure")
        ELSE Ok([s EXCEPT
                 !.riskAssessments = Store(@, exchangeId, assessment),
                 !.events = Append(@, Event("RiskAnalysisCompleted", exchangeId, ZeroAddress, 0))])

\* assessRisk with the operands of the subtraction swapped
assessRisk_swappedSub(s, exchangeId, engineOk) ==
    LET orderBook == Read(s.orderBooks, exchangeId, ZeroOrderBook)
        assessment ==
            [encryptedLiquidityImpact |->
                FHE_div(FHE_sub(orderBook.encryptedAskOrders, orderBook.encryptedBidOrders),
                        FHE_asEuint32(100)),
             encryptedFlashCrashRisk |->
                FHE_mul(orderBook.encryptedOrderFlow, FHE_asEuint32(2)),
             encryptedMarketInstability |->
                FHE_add(FHE_mul(orderBook.encryptedVolatility, FHE_asEuint32(3)),
                        FHE_div(orderBook.encryptedOrderFlow, FHE_asEuint32(5)))]
    IN  IF ~engineOk
        THEN Revert(s, "EngineFailure")
        ELSE Ok([s EXCEPT
                 !.riskAssessments = Store(@, exchangeId, assessment),
                 !.decryptedAssessments = Store(@, exchangeId, ZeroDecryptedAssessment),
                 !.events = Append(@, Event("RiskAnalysisCompleted", exchangeId, ZeroAddress, 0))])

(***************************************************************************)
(* assessRisk: the three formulas over the stored handles, the zero        *)
(* placeholder of the decrypted assessment, the RiskAnalysisCompleted      *)
(* event.  An engine operation that fails reverts.                         *)
(***************************************************************************)
assessRisk(s, exchangeId, engineOk) ==
    LET orderBook == Read(s.orderBooks, exchangeId, ZeroOrderBook)
        assessment ==
            [encryptedLiquidityImpact |->
                FHE_div(FHE_sub(orderBook.encryptedBidOrders, orderBook.encryptedAskOrders),
                        FHE_asEuint32(100)),
             encryptedFlashCrashRisk |->
                FHE_mul(orderBook.encryptedOrderFlow, FHE_asEuint32(2)),
             encryptedMarketInstability |->
                FHE_add(FHE_mul(orderBook.encryptedVolatility, FHE_asEuint32(3)),
                        FHE_div(orderBook.encryptedOrderFlow, FHE_asEuint32(5)))]
    IN  IF ~engineOk
        THEN Revert(s, "EngineFailure")
        ELSE Ok([s EXCEPT
                 !.riskAssessments = Store(@, exchangeId, assessment),
                 !.decryptedAssessments = Store(@, exchangeId, ZeroDecryptedAssessment),
                 !.events = Append(@, Event("RiskAnalysisCompleted", exchangeId, ZeroAddress, 0))])

\* submitEncryptedOrderBook reporting a failed assessment while keeping its own writes
submitEncryptedOrderBook_keepsWrites(s, bid, ask, flow, volatility, exchange, timestamp, engineOk) ==
    LET reg == registerExchange(s, exchange)
        exchangeId == reg.ret
        stored == [reg.st EXCEPT
                   !.blockTimestamp = timestamp + 1,
                   !.orderBooks = Store(@, exchangeId,
                       [exchangeId |-> exchangeId, encryptedBidOrders |-> bid,
                        encryptedAskOrders |-> ask, encryptedOrderFlow |-> flow,
                        encryptedVolatility |-> volatility, timestamp |-> timestamp,
                        exchange |-> exchange])]
        assessed == assessRisk(stored, exchangeId, engineOk)
    IN  IF assessed.err # "ok"
        THEN Revert(stored, assessed.err)
        ELSE Ok([assessed.st EXCEPT
                 !.events = Append(@, Event("OrderBookSubmitted", exchangeId, exchange, timestamp))])

\* submitEncryptedOrderBook asking at once for the decryption of the new assessment
submitEncryptedOrderBook_requestsDecryption(s, bid, ask, flow, volatility, exchange, timestamp, engineOk) ==
    LET reg == registerExchange(s, exchange)
        exchangeId == reg.ret
        stored == [reg.st EXCEPT
                   !.blockTimestamp = timestamp + 1,
                   !.orderBooks = Store(@, exchangeId,
                       [exchangeId |-> exchangeId, encryptedBidOrders |-> bid,
                        encryptedAskOrders |-> ask, encryptedOrderFlow |-> flow,
                        encryptedVolatility |-> volatility, timestamp |-> timestamp,
                        exchange |-> exchange])]
        assessed == assessRisk(stored, exchangeId, engineOk)
        assessment == Read(assessed.st.riskAssessments, exchangeId, ZeroRiskAssessment)
        request == [selector |-> "decryptAssessment",
                    ciphertexts |-> <<assessment.encryptedLiquidityImpact,
                                      assessment.encryptedFlashCrashRisk,
                                      assessment.encryptedMarketInstability>>,
                    exchangeId |-> exchangeId, sender |-> exchange]
    IN  IF assessed.err # "ok"
        THEN Revert(s, assessed.err)
        ELSE Ok([assessed.st EXCEPT
                 !.requestToExchangeId = Store(@, Len(s.decryptionRequests), exchangeId),
                 !.decryptionRequests = Append(@, request),
                 !.events = Append(@, Event("OrderBookSubmitted", exchangeId, exchange, timestamp))])

\* submitEncryptedOrderBook emitting OrderBookSubmitted before it calls assessRisk
submitEncryptedOrderBook_emitsFirst(s, bid, ask, flow, volatility, exchange, timestamp, engineOk) ==
    LET reg == registerExchange(s, exchange)
        exchangeId == reg.ret
        stored == [reg.st EXCEPT
                   !.blockTimestamp = timestamp + 1,
                   !.orderBooks = Store(@, exchangeId,
                       [exchangeId |-> exchangeId, encryptedBidOrders |-> bid,
                        encryptedAskOrders |-> ask, encryptedOrderFlow |-> flow,
                        encryptedVolatility |-> volatility, timestamp |-> timestamp,
                        exchange |-> exchange]),
                   !.events = Append(@, Event("OrderBookSubmitted", exchangeId, exchange, timestamp))]
        assessed == assessRisk(stored, exchangeId, engineOk)
    IN  IF assessed.err # "ok"
        THEN Revert(s, assessed.err)
        ELSE Ok(assessed.st)

(***************************************************************************)
(* submitEncryptedOrderBook: new id, store the order book, assess it,      *)
(* emit OrderBookSubmitted.  A failure of the assessment reverts the       *)
(* submission with it.                                                     *)
(***************************************************************************)
submitEncryptedOrderBook(s, bid, ask, flow, volatility, exchange, timestamp, engineOk) ==
    LET reg == registerExchange(s, exchange)
        exchangeId == reg.ret
        stored == [reg.st EXCEPT
                   !.blockTimestamp = timestamp + 1,
                   !.orderBooks = Store(@, exchangeId,
                       [exchangeId |-> exchangeId, encryptedBidOrders |-> bid,
                        encryptedAskOrders |-> ask, encryptedOrderFlow |-> flow,
                        encryptedVolatility |-> volatility, timestamp |-> timestamp,
                        exchange |-> exchange])]
        assessed == assessRisk(stored, exchangeId, engineOk)
    IN  IF assessed.err # "ok"
        THEN Revert(s, assessed.err)
        ELSE Ok([assessed.st EXCEPT
                 !.events = Append(@, Event("OrderBookSubmitted", exchangeId, exchange, timestamp))])

(***************************************************************************)
(* bytes cleartexts: a sequence of 32-byte words.  A word is the 32-bit    *)
(* value in its low bytes and `upper`, the bits above them (non-zero when  *)
(* the word is not a uint32).  abi.decode of n uint32 values reverts when  *)
(* fewer than n words are present or one of the first n is out of range.   *)
(***************************************************************************)
Word(v) == [upper |-> 0, value |-> v]

abiEncode(values) == [i \in 1..Len(values) |-> Word(values[i])]

abiDecodable(cleartexts, n) ==
    /\ Len(cleartexts) >= n
    /\ \A i \in 1..n : cleartexts[i].upper = 0

abiDecode(cleartexts, n) == [i \in 1..n |-> cleartexts[i].value]

(***************************************************************************)
(* The engine: requestDecryption saves the handles under the next request  *)
(* id (a counter from 0) and returns it; checkSignatures accepts only a    *)
(* valid proof for a request the engine has issued.                        *)
(***************************************************************************)
requestDecryption(s, ciphertexts, selector, exchangeId, sender) ==
    [ret |-> Len(s.decryptionRequests),
     st |-> [s EXCEPT !.decryptionRequests =
                Append(@, [selector |-> selector, ciphertexts |-> ciphertexts,
                           exchangeId |-> exchangeId, sender |-> sender])]]

checkSignatures(s, requestId, cleartexts, proof) ==
    /\ proof = "valid"
    /\ requestId < Len(s.decryptionRequests)

\* requestAssessmentDecryption without the owner check
requestAssessmentDecryption_noOwnerCheck(s, sender, exchangeId) ==
    LET assessment == Read(s.riskAssessments, exchangeId, ZeroRiskAssessment)
        ciphertexts == <<assessment.encryptedLiquidityImpact,
                         assessment.encryptedFlashCrashRisk,
                         assessment.encryptedMarketInstability>>
        req == requestDecryption(s, ciphertexts, "decryptAssessment", exchangeId, sender)
    IN  IF Read(s.decryptedAssessments, exchangeId, ZeroDecryptedAssessment).isRevealed
        THEN Revert(s, "AlreadyRevealed")
        ELSE Ok([req.st EXCEPT !.requestToExchangeId = Store(@, req.ret, exchangeId)])

\* requestAssessmentDecryption without the check that nothing is revealed yet
requestAssessmentDecryption_noRevealedCheck(s, sender, exchangeId) ==
    LET assessment == Read(s.riskAssessments, exchangeId, ZeroRiskAssessment)
        ciphertexts == <<assessment.encryptedLiquidityImpact,
                         assessment.encryptedFlashCrashRisk,
                         assessment.encryptedMarketInstability>>
        req == requestDecryption(s, ciphertexts, "decryptAssessment", exchangeId, sender)
    IN  IF sender # Read(s.orderBooks, exchangeId, ZeroOrderBook).exchange
        THEN Revert(s, "Unauthorized")
        ELSE Ok([req.st EXCEPT !.requestToExchangeId = Store(@, req.ret, exchangeId)])

(***************************************************************************)
(* requestAssessmentDecryption: owner only, not yet revealed; asks the     *)
(* engine to decrypt the three assessment handles and records              *)
(* requestId -> exchangeId.                                                *)
(***************************************************************************)
requestAssessmentDecryption(s, sender, exchangeId) ==
    LET assessment == Read(s.riskAssessments, exchangeId, ZeroRiskAssessment)
        ciphertexts == <<assessment.encryptedLiquidityImpact,
                         assessment.encryptedFlashCrashRisk,
                         assessment.encryptedMarketInstability>>
        req == requestDecryption(s, ciphertexts, "decryptAssessment", exchangeId, sender)
    IN  IF sender # Read(s.orderBooks, exchangeId, ZeroOrderBook).exchange
        THEN Revert(s, "Unauthorized")
        ELSE IF Read(s.decryptedAssessments, exchangeId, ZeroDecryptedAssessment).isRevealed
        THEN Revert(s, "AlreadyRevealed")
        ELSE Ok([req.st EXCEPT !.requestToExchangeId = Store(@, req.ret, exchangeId)])

\* decryptAssessment without the call of checkSignatures
decryptAssessment_noProofCheck(s, requestId, cleartexts, proof) ==
    LET exchangeId == Read(s.requestToExchangeId, requestId, 0)
        dAssessment == Read(s.decryptedAssessments, exchangeId, ZeroDecryptedAssessment)
        decoded == abiDecode(cleartexts, 3)
    IN  IF exchangeId = 0
        THEN Revert(s, "UnknownRequest")
        ELSE IF dAssessment.isRevealed
        THEN Revert(s, "AlreadyRevealed")
        ELSE IF ~abiDecodable(cleartexts, 3)
        THEN Revert(s, "MalformedCleartext")
        ELSE Ok([s EXCEPT
                 !.decryptedAssessments = Store(@, exchangeId,
                     [liquidityImpact |-> decoded[1], flashCrashRisk |-> decoded[2],
                      marketInstability |-> decoded[3], isRevealed |-> TRUE]),
                 !.events = Append(@, Event("AssessmentDecrypted", exchangeId, ZeroAddress, 0))])

\* decryptAssessment without the check that the assessment is not yet revealed
decryptAssessment_noRevealedCheck(s, requestId, cleartexts, proof) ==
    LET exchangeId == Read(s.requestToExchangeId, requestId, 0)
        decoded == abiDecode(cleartexts, 3)
    IN  IF exchangeId = 0
        THEN Revert(s, "UnknownRequest")
        ELSE IF ~checkSignatures(s, requestId, cleartexts, proof)
        THEN Revert(s, "InvalidProof")
        ELSE IF ~abiDecodable(cleartexts, 3)
        THEN Revert(s, "MalformedCleartext")
        ELSE Ok([s EXCEPT
                 !.decryptedAssessments = Store(@, exchangeId,
                     [liquidityImpact |-> decoded[1], flashCrashRisk |-> decoded[2],
                      marketInstability |-> decoded[3], isRevealed |-> TRUE]),
                 !.events = Append(@, Event("AssessmentDecrypted", exchangeId, ZeroAddress, 0))])

\* decryptAssessment storing the result under the requestId instead of the exchangeId
decryptAssessment_wrongKey(s, requestId, cleartexts, proof) ==
    LET exchangeId == Read(s.requestToExchangeId, requestId, 0)
        dAssessment == Read(s.decryptedAssessments, exchangeId, ZeroDecryptedAssessment)
        decoded == abiDecode(cleartexts, 3)
    IN  IF exchangeId = 0
        THEN Revert(s, "UnknownRequest")
        ELSE IF dAssessment.isRevealed
        THEN Revert(s, "AlreadyRevealed")
        ELSE IF ~checkSignatures(s, requestId, cleartexts, proof)
        THEN Revert(s, "InvalidProof")
        ELSE IF ~abiDecodable(cleartexts, 3)
        THEN Revert(s, "MalformedCleartext")
        ELSE Ok([s EXCEPT
                 !.decryptedAssessments = Store(@, requestId,
                     [liquidityImpact |-> decoded[1], flashCrashRisk |-> decoded[2],
                      marketInstability |-> decoded[3], isRevealed |-> TRUE]),
                 !.events = Append(@, Event("AssessmentDecrypted", exchangeId, ZeroAddress, 0))])

\* decryptAssessment dropping the request when the proof or the cleartext is bad
decryptAssessment_consumesOnFailure(s, requestId, cleartexts, proof) ==
    LET exchangeId == Read(s.requestToExchangeId, requestId, 0)
        dAssessment == Read(s.decryptedAssessments, exchangeId, ZeroDecryptedAssessment)
        decoded == abiDecode(cleartexts, 3)
        dropped == [s EXCEPT !.requestToExchangeId = Store(@, requestId, 0)]
    IN  IF exchangeId = 0
        THEN Revert(s, "UnknownRequest")
        ELSE IF dAssessment.isRevealed
        THEN Revert(s, "AlreadyRevealed")
        ELSE IF ~checkSignatures(s, requestId, cleartexts, proof)
        THEN Revert(dropped, "InvalidProof")
        ELSE IF ~abiDecodable(cleartexts, 3)
        THEN Revert(dropped, "MalformedCleartext")
        ELSE Ok([s EXCEPT
                 !.decryptedAssessments = Store(@, exchangeId,
                     [liquidityImpact |-> decoded[1], flashCrashRisk |-> decoded[2],
                      marketInstability |-> decoded[3], isRevealed |-> TRUE]),
                 !.events = Append(@, Event("AssessmentDecrypted", exchangeId, ZeroAddress, 0))])

\* decryptAssessment with the reveal check inverted: "require(isRevealed)"
decryptAssessment_invertedRevealedCheck(s, requestId, cleartexts, proof) ==
    LET exchangeId == Read(s.requestToExchangeId, requestId, 0)
        dAssessment == Read(s.decryptedAssessments, exchangeId, ZeroDecryptedAssessment)
        decoded == abiDecode(cleartexts, 3)
    IN  IF exchangeId = 0
        THEN Revert(s, "UnknownRequest")
        ELSE IF ~dAssessment.isRevealed
        THEN Revert(s, "AlreadyRevealed")
        ELSE IF ~checkSignatures(s, requestId, cleartexts, proof)
        THEN Revert(s, "InvalidProof")
        ELSE IF ~abiDecodable(cleartexts, 3)
        THEN Revert(s, "MalformedCleartext")
        ELSE Ok([s EXCEPT
                 !.decryptedAssessments = Store(@, exchangeId,
                     [liquidityImpact |-> decoded[1], flashCrashRisk |-> decoded[2],
                      marketInstability |-> decoded[3], isRevealed |-> TRUE]),
                 !.events = Append(@, Event("AssessmentDecrypted", exchangeId, ZeroAddress, 0))])

(***************************************************************************)
(* decryptAssessment: the callback of an assessment request.               *)
(***************************************************************************)
decryptAssessment(s, requestId, cleartexts, proof) ==
    LET exchangeId == Read(s.requestToExchangeId, requestId, 0)
        dAssessment == Read(s.decryptedAssessments, exchangeId, ZeroDecryptedAssessment)
        decoded == abiDecode(cleartexts, 3)
    IN  IF exchangeId = 0
        THEN Revert(s, "UnknownRequest")
        ELSE IF dAssessment.isRevealed
        THEN Revert(s, "AlreadyRevealed")
        ELSE IF ~checkSignatures(s, requestId, cleartexts, proof)
        THEN Revert(s, "InvalidProof")
        ELSE IF ~abiDecodable(cleartexts, 3)
        THEN Revert(s, "MalformedCleartext")
        ELSE Ok([s EXCEPT
                 !.decryptedAssessments = Store(@, exchangeId,
                     [liquidityImpact |-> decoded[1], flashCrashRisk |-> decoded[2],
                      marketInstability |-> decoded[3], isRevealed |-> TRUE]),
                 !.events = Append(@, Event("AssessmentDecrypted", exchangeId, ZeroAddress, 0))])

\* requestOrderBookDecryption without the owner check
requestOrderBookDecryption_noOwnerCheck(s, sender, exchangeId) ==
    LET orderBook == Read(s.orderBooks, exchangeId, ZeroOrderBook)
        ciphertexts == <<orderBook.encryptedBidOrders, orderBook.encryptedAskOrders,
                         orderBook.encryptedOrderFlow, orderBook.encryptedVolatility>>
        req == requestDecryption(s, ciphertexts, "decryptOrderBook", exchangeId, sender)
    IN  Ok(req.st)

(***************************************************************************)
(* requestOrderBookDecryption: owner only; asks the engine to decrypt the  *)
(* four order-book handles.  The request id is not kept.                   *)
(***************************************************************************)
requestOrderBookDecryption(s, sender, exchangeId) ==
    LET orderBook == Read(s.orderBooks, exchangeId, ZeroOrderBook)
        ciphertexts == <<orderBook.encryptedBidOrders, orderBook.encryptedAskOrders,
                         orderBook.encryptedOrderFlow, orderBook.encryptedVolatility>>
        req == requestDecryption(s, ciphertexts, "decryptOrderBook", exchangeId, sender)
    IN  IF sender # orderBook.exchange
        THEN Revert(s, "Unauthorized")
        ELSE Ok(req.st)

\* decryptOrderBook marking the assessment of the request's exchange as revealed
decryptOrderBook_marksRevealed(s, requestId, cleartexts, proof) ==
    LET exchangeId == s.decryptionRequests[requestId + 1].exchangeId
        dAssessment == Read(s.decryptedAssessments, exchangeId, ZeroDecryptedAssessment)
    IN  IF ~checkSignatures(s, requestId, cleartexts, proof)
        THEN Revert(s, "InvalidProof")
        ELSE IF ~abiDecodable(cleartexts, 4)
        THEN Revert(s, "MalformedCleartext")
        ELSE Ok([s EXCEPT !.decryptedAssessments =
                    Store(@, exchangeId, [dAssessment EXCEPT !.isRevealed = TRUE])])

(***************************************************************************)
(* decryptOrderBook: verifies and decodes; keeps nothing.                  *)
(***************************************************************************)
decryptOrderBook(s, requestId, cleartexts, proof) ==
    IF ~checkSignatures(s, requestId, cleartexts, proof)
    THEN Revert(s, "InvalidProof")
    ELSE IF ~abiDecodable(cleartexts, 4)
    THEN Revert(s, "MalformedCleartext")
    ELSE Ok(s)

getExchangeCount(s) == s.exchangeCount

(***************************************************************************)
(* Transactions: the storage becomes the outcome's state, and lastTx       *)
(* records the call and its result.                                        *)
(***************************************************************************)
Call(op, sender, exchangeId, requestId, cleartexts, proof) ==
    [op |-> op, sender |-> sender, exchangeId |-> exchangeId, requestId |-> requestId,
     cleartexts |-> cleartexts, proof |-> proof]

NoTx == [op |-> "none", sender |-> ZeroAddress, exchangeId |-> 0, requestId |-> 0,
         cleartexts |-> <<>>, proof |-> "none", result |-> "none"]

Commit(call, outcome) ==
    \E o \in {outcome} :
        /\ o.st.exchangeCount + Len(o.st.decryptionRequests) <= MaxCalls
        /\ exchangeCount' = o.st.exchangeCount
        /\ orderBooks' = o.st.orderBooks
        /\ riskAssessments' = o.st.riskAssessments
        /\ decryptedAssessments' = o.st.decryptedAssessments
        /\ requestToExchangeId' = o.st.requestToExchangeId
        /\ decryptionRequests' = o.st.decryptionRequests
        /\ blockTimestamp' = o.st.blockTimestamp
        /\ events' = o.st.events
        /\ lastTx' = [op |-> call.op, sender |-> call.sender, exchangeId |-> call.exchangeId,
                      requestId |-> call.requestId, cleartexts |-> call.cleartexts,
                      proof |-> call.proof, result |-> o.err]
        /\ UNCHANGED appVars

\* inputs
\* the owner named by a submission; the principals are interchangeable, so the
\* first order book is alice's
ExchangeInputs == IF orderBooks = <<>> THEN {"alice"} ELSE Principals

OrderInputs ==
    { <<FHE_asEuint32(500), FHE_asEuint32(300), FHE_asEuint32(50), FHE_asEuint32(20)>> }

ExchangeIdInputs == 0..(exchangeCount + 1)

RequestIdInputs == 0..Len(decryptionRequests)

\* what the oracle, or anyone else, may deliver for a request: the decryption of
\* the request's handles under a valid proof; other values, under a valid and under
\* a forged proof; bytes that do not decode (too short, and a word that is not a
\* uint32)
Forged ==
    abiEncode(<<FHE_asEuint32(1), FHE_asEuint32(2), FHE_asEuint32(3), FHE_asEuint32(4)>>)

Malformed == <<Word(FHE_asEuint32(1)), [upper |-> 1, value |-> FHE_asEuint32(2)]>>

Deliveries(requestId) ==
    { [cleartexts |-> abiEncode(decryptionRequests[i].ciphertexts), proof |-> "valid"] :
        i \in {requestId + 1} \cap (1..Len(decryptionRequests)) }
    \cup { [cleartexts |-> Forged, proof |-> "valid"],
           [cleartexts |-> Forged, proof |-> "forged"],
           [cleartexts |-> Malformed, proof |-> "valid"] }

\* plaintexts for the formulas alone: bid >= ask, nothing reaches 2^32, and the
\* 16-bit limbs carry and borrow
ArithInputs ==
    { <<500, 300, 50, 20>>, <<300, 300, 0, 0>>, <<131077, 65546, 40000, 30000>>,
      <<99, 0, 4, 1>>, <<1000000, 999, 65535, 65536>> }

RegisterExchange ==
    \E exchange \in Principals :
        \E reg \in {registerExchange(Cur, exchange)} :
            Commit(Call("registerExchange", ZeroAddress, reg.ret, 0, <<>>, "none"), Ok(reg.st))

\* each submission runs in a later block than the one before
SubmitEncryptedOrderBook ==
    \E in \in OrderInputs, exchange \in ExchangeInputs, engineOk \in BOOLEAN :
        Commit(Call("submitEncryptedOrderBook", ZeroAddress, exchangeCount + 1, 0, <<>>, "none"),
               submitEncryptedOrderBook(Cur, in[1], in[2], in[3], in[4], exchange,
                                        blockTimestamp, engineOk))

RequestAssessmentDecryption ==
    \E sender \in Principals, exchangeId \in ExchangeIdInputs :
        Commit(Call("requestAssessmentDecryption", sender, exchangeId,
                    Len(decryptionRequests), <<>>, "none"),
               requestAssessmentDecryption(Cur, sender, exchangeId))

DecryptAssessment ==
    \E requestId \in RequestIdInputs :
        \E d \in Deliveries(requestId) :
            Commit(Call("decryptAssessment", ZeroAddress, 0, requestId, d.cleartexts, d.proof),
                   decryptAssessment(Cur, requestId, d.cleartexts, d.proof))

RequestOrderBookDecryption ==
    \E sender \in Principals, exchangeId \in ExchangeIdInputs :
        Commit(Call("requestOrderBookDecryption", sender, exchangeId,
                    Len(decryptionRequests), <<>>, "none"),
               requestOrderBookDecryption(Cur, sender, exchangeId))

DecryptOrderBook ==
    \E requestId \in RequestIdInputs :
        \E d \in Deliveries(requestId) :
            Commit(Call("decryptOrderBook", ZeroAddress, 0, requestId, d.cleartexts, d.proof),
                   decryptOrderBook(Cur, requestId, d.cleartexts, d.proof))

Init ==
    /\ exchangeCount = 0
    /\ orderBooks = <<>>
    /\ riskAssessments = <<>>
    /\ decryptedAssessments = <<>>
    /\ requestToExchangeId = <<>>
    /\ decryptionRequests = <<>>
    /\ blockTimestamp = 1
    /\ events = <<>>
    /\ lastTx = NoTx
    /\ store = <<>>
    /\ pc = [c \in Clients |-> "idle"]
    /\ dataId = [c \in Clients |-> 0]
    /\ keys = [c \in Clients |-> <<>>]
    /\ transactionStatus = [c \in Clients |-> "none"]
    /\ dataIdCount = 0

Next ==
    \/ RegisterExchange
    \/ SubmitEncryptedOrderBook
    \/ RequestAssessmentDecryption
    \/ DecryptAssessment
    \/ RequestOrderBookDecryption
    \/ DecryptOrderBook

Spec == Init /\ [][Next]_vars

(***************************************************************************)
(* The oracle answering request requestId: it calls the selector the       *)
(* request named, here decryptAssessment, with the decryption of the       *)
(* request's handles and a valid proof.  FairSpec assumes that the oracle  *)
(* answers every assessment request it was given.                          *)
(***************************************************************************)
OracleCallback(requestId) ==
    /\ requestId < Len(decryptionRequests)
    /\ decryptionRequests[requestId + 1].selector = "decryptAssessment"
    /\ \E cleartexts \in {abiEncode(decryptionRequests[requestId + 1].ciphertexts)} :
          Commit(Call("decryptAssessment", ZeroAddress, 0, requestId, cleartexts, "valid"),
                 decryptAssessment(Cur, requestId, cleartexts, "valid"))

\* the transactions of Next, with the storage growing up to MaxFairCalls
FairBound == exchangeCount + Len(decryptionRequests) <= MaxFairCalls

FairRegisterExchange == RegisterExchange /\ FairBound'

FairSubmitEncryptedOrderBook == SubmitEncryptedOrderBook /\ FairBound'

FairRequestAssessmentDecryption == RequestAssessmentDecryption /\ FairBound'

FairRequestOrderBookDecryption == RequestOrderBookDecryption /\ FairBound'

FairNext ==
    \/ FairRegisterExchange
    \/ FairSubmitEncryptedOrderBook
    \/ FairRequestAssessmentDecryption
    \/ DecryptAssessment
    \/ FairRequestOrderBookDecryption
    \/ DecryptOrderBook

FairSpec ==
    /\ Init
    /\ [][FairNext]_vars
    /\ \A requestId \in 0..(MaxFairCalls - 1) : WF_vars(OracleCallback(requestId))

(***************************************************************************)
(* WrapSpec: submissions alone, with order books whose formulas leave the  *)
(* range of 32 bits: bid < ask, flow * 2 and volatility * 3 at and above   *)
(* 2^32, and a sum that passes 2^32.  The engine accepts every call.       *)
(***************************************************************************)
WrapInputs ==
    { <<FHE_asEuint32(300), FHE_asEuint32(500), FHE_asEuint32(50), FHE_asEuint32(20)>>,
      <<FHE_asEuint32(0), FHE_asEuint32(1), <<32768, 7>>, FHE_asEuint32(1431655766)>>,
      <<FHE_asEuint32(0), FHE_asEuint32(97), <<65535, 65535>>, <<65535, 65535>>>>,
      <<FHE_asEuint32(65536), <<65535, 65535>>, FHE_asEuint32(50), FHE_asEuint32(1431655765)>>,
      <<<<32768, 0>>, FHE_asEuint32(2147483647), <<32767, 65535>>, <<21845, 21845>>>>,
      <<FHE_asEuint32(500), FHE_asEuint32(300), FHE_asEuint32(50), FHE_asEuint32(20)>> }

SubmitWrapping ==
    \E in \in WrapInputs, exchange \in {"alice"} :
        Commit(Call("submitEncryptedOrderBook", ZeroAddress, exchangeCount + 1, 0, <<>>, "none"),
               submitEncryptedOrderBook(Cur, in[1], in[2], in[3], in[4], exchange,
                                        blockTimestamp, TRUE))

WrapSpec == Init /\ [][SubmitWrapping]_vars

(***************************************************************************)
(* App.tsx, submitRiskData.  The store behind `contract` is shared by the  *)
(* clients; a call of contract.setData or contract.getData is one atomic   *)
(* step, and every `await` is a point where another client may run.  Any   *)
(* awaited call may throw (rejected transaction, network): the catch       *)
(* block reports the error and the run ends.                               *)
(***************************************************************************)
\* bytes of a JSON document, ethers.toUtf8Bytes(JSON.stringify(v)), and back;
\* the empty byte string is <<>>
toUtf8Bytes(v) == <<v>>

JSONparse(bytes) == bytes[1]

\* contract.setData(key, value) and contract.getData(key); a key never set
\* reads as empty bytes
setData(st, key, value) == Store(st, key, value)

getData(st, key) == Read(st, key, <<>>)

RiskDataKey(id) == <<"risk_data_", id>>

RiskDataKeysKey == <<"risk_data_keys", 0>>

riskDataItem == [exchange |-> "Binance", encryptedData |-> "FHE-ENCRYPTED"]

\* the catch block: status "error", the run is over
Fails(c) ==
    /\ pc' = [pc EXCEPT ![c] = "idle"]
    /\ transactionStatus' = [transactionStatus EXCEPT ![c] = "error"]

\* up to the first await: status "pending", the signer's contract, a fresh dataId
StartSubmit(c) ==
    /\ pc[c] = "idle"
    /\ dataIdCount < MaxRuns
    /\ dataIdCount' = dataIdCount + 1
    /\ dataId' = [dataId EXCEPT ![c] = dataIdCount + 1]
    /\ keys' = [keys EXCEPT ![c] = <<>>]
    /\ \/ /\ pc' = [pc EXCEPT ![c] = "setRiskData"]
          /\ transactionStatus' = [transactionStatus EXCEPT ![c] = "pending"]
       \/ Fails(c)
    /\ UNCHANGED <<store, storage, lastTx>>

\* await contract.setData(`risk_data_${dataId}`, ...) that goes on after a failure
StoreRiskData_ignoresFailure(c) ==
    /\ pc[c] = "setRiskData"
    /\ \/ /\ store' = setData(store, RiskDataKey(dataId[c]), toUtf8Bytes(riskDataItem))
          /\ pc' = [pc EXCEPT ![c] = "getKeys"]
          /\ UNCHANGED transactionStatus
       \/ /\ pc' = [pc EXCEPT ![c] = "getKeys"]
          /\ UNCHANGED <<store, transactionStatus>>
    /\ UNCHANGED <<dataId, keys, dataIdCount, storage, lastTx>>

\* await contract.setData(`risk_data_${dataId}`, ...)
StoreRiskData(c) ==
    /\ pc[c] = "setRiskData"
    /\ \/ /\ store' = setData(store, RiskDataKey(dataId[c]), toUtf8Bytes(riskDataItem))
          /\ pc' = [pc EXCEPT ![c] = "getKeys"]
          /\ UNCHANGED transactionStatus
       \/ (Fails(c) /\ UNCHANGED store)
    /\ UNCHANGED <<dataId, keys, dataIdCount, storage, lastTx>>

\* await contract.getData("risk_data_keys"), parsed when not empty
LoadKeys(c) ==
    /\ pc[c] = "getKeys"
    /\ \/ \E keysBytes \in {getData(store, RiskDataKeysKey)} :
             /\ keys' = [keys EXCEPT ![c] = IF Len(keysBytes) > 0 THEN JSONparse(keysBytes)
                                                                ELSE <<>>]
             /\ pc' = [pc EXCEPT ![c] = "setKeys"]
             /\ UNCHANGED transactionStatus
       \/ (Fails(c) /\ UNCHANGED keys)
    /\ UNCHANGED <<store, dataId, dataIdCount, storage, lastTx>>

\* keys.push(dataId); await contract.setData("risk_data_keys", ...); status
\* "success".  The loadRiskData that follows only reads the store.
StoreKeys(c) ==
    /\ pc[c] = "setKeys"
    /\ \/ /\ keys' = [keys EXCEPT ![c] = Append(@, dataId[c])]
          /\ store' = setData(store, RiskDataKeysKey, toUtf8Bytes(Append(keys[c], dataId[c])))
          /\ pc' = [pc EXCEPT ![c] = "idle"]
          /\ transactionStatus' = [transactionStatus EXCEPT ![c] = "success"]
       \/ /\ keys' = [keys EXCEPT ![c] = Append(@, dataId[c])]
          /\ Fails(c)
          /\ UNCHANGED store
    /\ UNCHANGED <<dataId, dataIdCount, storage, lastTx>>

submitRiskData(c) ==
    \/ StartSubmit(c)
    \/ StoreRiskData(c)
    \/ LoadKeys(c)
    \/ StoreKeys(c)

AppNext == \E c \in Clients : submitRiskData(c)

AppSpec == Init /\ [][AppNext]_vars

(***************************************************************************)
(* Properties.                                                             *)
(***************************************************************************)
Owner(exchangeId) == Read(orderBooks, exchangeId, ZeroOrderBook).exchange

Revealed(exchangeId) ==
    Read(decryptedAssessments, exchangeId, ZeroDecryptedAssessment).isRevealed

EventsNamed(name) == { i \in 1..Len(events) : events[i].name = name }

EventsOf(exchangeId) == { i \in 1..Len(events) : events[i].exchangeId = exchangeId }

Decoded(cleartexts) ==
    [liquidityImpact |-> abiDecode(cleartexts, 3)[1],
     flashCrashRisk |-> abiDecode(cleartexts, 3)[2],
     marketInstability |-> abiDecode(cleartexts, 3)[3], isRevealed |-> TRUE]

\* C1: the exchangeIds of the successive successful submissions (the ids of the
\* order books stored, in the order of their OrderBookSubmitted events) are
\* strictly increasing and never zero, so none is assigned twice.
C1_IdsStrictlyIncreasing ==
    /\ \A i \in EventsNamed("OrderBookSubmitted") :
          /\ events[i].exchangeId > 0
          /\ events[i].exchangeId \in DOMAIN orderBooks
    /\ \A i, j \in EventsNamed("OrderBookSubmitted") :
          i < j => events[i].exchangeId < events[j].exchangeId
    /\ Cardinality(EventsNamed("OrderBookSubmitted")) = Cardinality(DOMAIN orderBooks)

\* two submissions with a direct call of registerExchange between them
C1_Witness ==
    /\ DOMAIN orderBooks = {1, 3}
    /\ Cardinality(EventsNamed("OrderBookSubmitted")) = 2

\* C2: an exchangeId has an order book exactly when it has a risk assessment and
\* a decrypted assessment, and as long as no reveal request was accepted for it
\* the decrypted assessment is {0, 0, 0, false}.
C2_RecordsPaired ==
    /\ DOMAIN riskAssessments = DOMAIN orderBooks
    /\ DOMAIN decryptedAssessments = DOMAIN orderBooks
    /\ \A id \in DOMAIN orderBooks :
          (\A r \in DOMAIN requestToExchangeId : requestToExchangeId[r] # id)
              => decryptedAssessments[id] = ZeroDecryptedAssessment

C2_Witness ==
    /\ lastTx.op = "submitEncryptedOrderBook"
    /\ lastTx.result = "ok"
    /\ lastTx.exchangeId = 2
    /\ DOMAIN orderBooks = {1, 2}
    /\ decryptedAssessments[2] = ZeroDecryptedAssessment
    /\ Revealed(1)

\* C3: after a submission that failed in the risk assessment, the id it was
\* allocating has no order book, no risk assessment, no decrypted assessment and
\* no event.
C3_SubmitAllOrNothing ==
    (lastTx.op = "submitEncryptedOrderBook" /\ lastTx.result # "ok")
        => /\ lastTx.exchangeId \notin DOMAIN orderBooks
           /\ lastTx.exchangeId \notin DOMAIN riskAssessments
           /\ lastTx.exchangeId \notin DOMAIN decryptedAssessments
           /\ EventsOf(lastTx.exchangeId) = {}

C3_Witness ==
    /\ lastTx.op = "submitEncryptedOrderBook"
    /\ lastTx.result = "EngineFailure"
    /\ lastTx.exchangeId = 2
    /\ DOMAIN orderBooks = {1}

\* C4: a reveal request of either kind by a principal that is not the owner of
\* the exchangeId's order book fails with Unauthorized and changes nothing: no
\* pending request, no request to the engine, the decrypted assessment as it was.
C4_NonOwnerRequestRejected ==
    [][(/\ lastTx'.op \in {"requestAssessmentDecryption", "requestOrderBookDecryption"}
        /\ lastTx'.sender # Owner(lastTx'.exchangeId))
          => (lastTx'.result = "Unauthorized" /\ UNCHANGED storage)]_vars

C4_Witness ==
    /\ lastTx.op = "requestOrderBookDecryption"
    /\ lastTx.result = "Unauthorized"
    /\ lastTx.exchangeId \in DOMAIN orderBooks
    /\ lastTx.sender # Owner(lastTx.exchangeId)
    /\ decryptedAssessments[lastTx.exchangeId] = ZeroDecryptedAssessment
    /\ decryptionRequests = <<>>

\* C5: an assessment callback whose proof does not verify, or whose cleartext
\* does not decode, fails and changes nothing.
C5_BadCallbackFailsClosed ==
    [][(/\ lastTx'.op = "decryptAssessment"
        /\ \/ ~checkSignatures(Cur, lastTx'.requestId, lastTx'.cleartexts, lastTx'.proof)
           \/ ~abiDecodable(lastTx'.cleartexts, 3))
          => (lastTx'.result # "ok" /\ UNCHANGED storage)]_vars

\* a forged proof for a request that is pending and not yet revealed
C5_Witness ==
    /\ lastTx.op = "decryptAssessment"
    /\ lastTx.result = "InvalidProof"
    /\ lastTx.proof = "forged"
    /\ lastTx.requestId \in DOMAIN requestToExchangeId
    /\ ~Revealed(requestToExchangeId[lastTx.requestId])

\* C6: the first delivery of an assessment callback with a valid proof and a
\* well-formed cleartext commits the decoded fields; a delivery for a request
\* whose assessment is revealed fails with AlreadyRevealed and changes nothing.
C6_CallbackIdempotent ==
    [][(/\ lastTx'.op = "decryptAssessment"
        /\ lastTx'.requestId \in DOMAIN requestToExchangeId
        /\ checkSignatures(Cur, lastTx'.requestId, lastTx'.cleartexts, lastTx'.proof)
        /\ abiDecodable(lastTx'.cleartexts, 3))
          => LET id == requestToExchangeId[lastTx'.requestId]
             IN  IF Revealed(id)
                 THEN lastTx'.result = "AlreadyRevealed" /\ UNCHANGED storage
                 ELSE /\ lastTx'.result = "ok"
                      /\ decryptedAssessments'[id] = Decoded(lastTx'.cleartexts)]_vars

\* the one request there is, delivered again after it was answered
C6_Witness ==
    /\ lastTx.op = "decryptAssessment"
    /\ lastTx.result = "AlreadyRevealed"
    /\ lastTx.proof = "valid"
    /\ Len(decryptionRequests) = 1
    /\ lastTx.requestId = 0
    /\ lastTx.cleartexts = abiEncode(decryptionRequests[1].ciphertexts)
    /\ decryptedAssessments[requestToExchangeId[0]] = Decoded(lastTx.cleartexts)

\* C7: isRevealed never goes back from true to false.
C7_RevealedMonotone ==
    [][\A id \in DOMAIN decryptedAssessments :
          decryptedAssessments[id].isRevealed
              => (id \in DOMAIN decryptedAssessments' /\ decryptedAssessments'[id].isRevealed)]_vars

\* a submission after a reveal
C7_Witness ==
    /\ Revealed(1)
    /\ lastTx.op = "submitEncryptedOrderBook"
    /\ lastTx.result = "ok"

\* C8: a revealed decrypted assessment never changes again, and an unrevealed
\* one has its three fields 0.
C8_RevealedFrozen ==
    /\ [](\A id \in DOMAIN decryptedAssessments :
             ~decryptedAssessments[id].isRevealed
                 => decryptedAssessments[id] = ZeroDecryptedAssessment)
    /\ [][\A id \in DOMAIN decryptedAssessments :
             decryptedAssessments[id].isRevealed
                 => (id \in DOMAIN decryptedAssessments'
                     /\ decryptedAssessments'[id] = decryptedAssessments[id])]_vars

\* a later callback with a valid proof and another cleartext
C8_Witness ==
    /\ lastTx.op = "decryptAssessment"
    /\ lastTx.proof = "valid"
    /\ lastTx.requestId \in DOMAIN requestToExchangeId
    /\ Revealed(requestToExchangeId[lastTx.requestId])
    /\ abiDecodable(lastTx.cleartexts, 3)
    /\ decryptedAssessments[requestToExchangeId[lastTx.requestId]] # Decoded(lastTx.cleartexts)

\* C9: an assessment becomes revealed only in an assessment callback that carries
\* the id of a request which the owner of the order book made for this exchangeId.
C9_RevealOnlyForOwner ==
    [][\A id \in 0..(exchangeCount + 1) :
          (~Revealed(id) /\ Read(decryptedAssessments', id, ZeroDecryptedAssessment).isRevealed)
              => /\ lastTx'.op = "decryptAssessment"
                 /\ lastTx'.requestId < Len(decryptionRequests)
                 /\ id \in DOMAIN orderBooks
                 /\ LET req == decryptionRequests[lastTx'.requestId + 1]
                    IN  /\ req.selector = "decryptAssessment"
                        /\ req.exchangeId = id
                        /\ req.sender = orderBooks[id].exchange]_vars

\* bob's assessment revealed while alice's, which bob may not request, is not
C9_Witness ==
    /\ lastTx.op = "decryptAssessment"
    /\ lastTx.result = "ok"
    /\ DOMAIN orderBooks = {1, 2}
    /\ Owner(1) = "alice" /\ Owner(2) = "bob"
    /\ Revealed(2) /\ ~Revealed(1)

\* C10: a callback of either kind whose requestId has no entry in
\* requestToExchangeId is rejected (the claim: with UnknownRequest) and changes
\* nothing.  decryptOrderBook never looks the request up.
C10_UnknownRequestRejected ==
    [][(/\ lastTx'.op \in {"decryptAssessment", "decryptOrderBook"}
        /\ lastTx'.requestId \notin DOMAIN requestToExchangeId)
          => (lastTx'.result # "ok" /\ UNCHANGED storage)]_vars

\* C11, as claimed: once an assessment is revealed, every later assessment
\* request for its exchangeId fails with AlreadyRevealed and every later
\* assessment callback for it fails, and none of them changes anything.
C11_RevealedTerminalAnyCaller ==
    [][/\ (lastTx'.op = "requestAssessmentDecryption" /\ Revealed(lastTx'.exchangeId))
            => (lastTx'.result = "AlreadyRevealed" /\ UNCHANGED storage)
       /\ (/\ lastTx'.op = "decryptAssessment"
           /\ lastTx'.requestId \in DOMAIN requestToExchangeId
           /\ Revealed(requestToExchangeId[lastTx'.requestId]))
            => (lastTx'.result # "ok" /\ UNCHANGED storage)]_vars

\* C11, amended: the request fails with AlreadyRevealed when the owner makes it
\* and with Unauthorized when anyone else does (the owner check comes first);
\* the callback fails with AlreadyRevealed; none of them changes anything.
C11_RevealedTerminal ==
    [][/\ (lastTx'.op = "requestAssessmentDecryption" /\ Revealed(lastTx'.exchangeId))
            => /\ lastTx'.result = IF lastTx'.sender = Owner(lastTx'.exchangeId)
                                   THEN "AlreadyRevealed" ELSE "Unauthorized"
               /\ UNCHANGED storage
       /\ (/\ lastTx'.op = "decryptAssessment"
           /\ lastTx'.requestId \in DOMAIN requestToExchangeId
           /\ Revealed(requestToExchangeId[lastTx'.requestId]))
            => (lastTx'.result = "AlreadyRevealed" /\ UNCHANGED storage)]_vars

\* the owner asks again after the reveal
C11_Witness ==
    /\ lastTx.op = "requestAssessmentDecryption"
    /\ lastTx.result = "AlreadyRevealed"
    /\ lastTx.sender = Owner(lastTx.exchangeId)
    /\ Revealed(lastTx.exchangeId)
    /\ Len(decryptionRequests) = 1

\* C12: at most one unresolved pending request per exchangeId on the assessment
\* track: while the assessment is not revealed, at most one requestId maps to it.
C12_OnePendingPerExchange ==
    \A id \in DOMAIN orderBooks :
        ~Revealed(id)
            => Cardinality({ r \in DOMAIN requestToExchangeId :
                               requestToExchangeId[r] = id }) <= 1

\* C13: whatever requests and callbacks were interleaved, a revealed exchangeId
\* has exactly one AssessmentDecrypted event and an unrevealed one has none, and
\* a callback for a revealed exchangeId fails and changes nothing.
C13_AtMostOneCommit ==
    /\ [](\A id \in 0..(exchangeCount + 1) :
             Cardinality(EventsNamed("AssessmentDecrypted") \cap EventsOf(id))
                 = IF Revealed(id) THEN 1 ELSE 0)
    /\ [][(/\ lastTx'.op = "decryptAssessment"
           /\ lastTx'.requestId \in DOMAIN requestToExchangeId
           /\ Revealed(requestToExchangeId[lastTx'.requestId]))
            => (lastTx'.result # "ok" /\ UNCHANGED storage)]_vars

\* two requests for one exchangeId; after the reveal the older one is delivered,
\* with a valid proof and the decryption of its handles
C13_Witness ==
    /\ Len(decryptionRequests) = 2
    /\ DOMAIN requestToExchangeId = {0, 1}
    /\ requestToExchangeId[0] = requestToExchangeId[1]
    /\ Revealed(requestToExchangeId[0])
    /\ lastTx.op = "decryptAssessment"
    /\ lastTx.requestId = 0
    /\ lastTx.proof = "valid"
    /\ lastTx.cleartexts = abiEncode(decryptionRequests[1].ciphertexts)
    /\ lastTx.result = "AlreadyRevealed"

Val(u) == u[1] * Limb + u[2]

\* the three formulas in plain integer arithmetic
ExpectedAssessment(bid, ask, flow, volatility) ==
    [liquidityImpact |-> (bid - ask) \div 100,
     flashCrashRisk |-> flow * 2,
     marketInstability |-> (volatility * 3) + (flow \div 5)]

\* what a callback with the decryption of the assessment's handles commits for
\* an order book of these plaintexts
Committed(in) ==
    LET submitted == submitEncryptedOrderBook(Cur, FHE_asEuint32(in[1]), FHE_asEuint32(in[2]),
                         FHE_asEuint32(in[3]), FHE_asEuint32(in[4]), "alice",
                         blockTimestamp, TRUE).st
        id == submitted.exchangeCount
        requested == requestAssessmentDecryption(submitted, "alice", id).st
        requestId == Len(submitted.decryptionRequests)
        cleartexts == abiEncode(requested.decryptionRequests[requestId + 1].ciphertexts)
    IN  decryptAssessment(requested, requestId, cleartexts, "valid").st.decryptedAssessments[id]

\* C14: a callback that carries the decryption of the request's handles under a
\* valid proof commits (bid - ask) / 100, flow * 2 and (volatility * 3) + (flow / 5)
\* of the order book's plaintexts (bid >= ask, below 2^32); for 500, 300, 50, 20
\* the decrypted assessment becomes {2, 100, 70, true}.
C14_EndToEndValues ==
    /\ (/\ lastTx.op = "decryptAssessment"
        /\ lastTx.result = "ok"
        /\ lastTx.cleartexts = abiEncode(decryptionRequests[lastTx.requestId + 1].ciphertexts))
          => LET id == requestToExchangeId[lastTx.requestId]
                 ob == orderBooks[id]
                 da == decryptedAssessments[id]
                 expected == ExpectedAssessment(Val(ob.encryptedBidOrders),
                                 Val(ob.encryptedAskOrders), Val(ob.encryptedOrderFlow),
                                 Val(ob.encryptedVolatility))
             IN  /\ da.isRevealed
                 /\ Val(da.liquidityImpact) = expected.liquidityImpact
                 /\ Val(da.flashCrashRisk) = expected.flashCrashRisk
                 /\ Val(da.marketInstability) = expected.marketInstability
                 /\ (<<Val(ob.encryptedBidOrders), Val(ob.encryptedAskOrders),
                       Val(ob.encryptedOrderFlow), Val(ob.encryptedVolatility)>>
                         = <<500, 300, 50, 20>>)
                      => da = [liquidityImpact |-> <<0, 2>>, flashCrashRisk |-> <<0, 100>>,
                               marketInstability |-> <<0, 70>>, isRevealed |-> TRUE]
    /\ \A in \in ArithInputs :
          LET da == Committed(in)
              expected == ExpectedAssessment(in[1], in[2], in[3], in[4])
          IN  /\ da.isRevealed
              /\ Val(da.liquidityImpact) = expected.liquidityImpact
              /\ Val(da.flashCrashRisk) = expected.flashCrashRisk
              /\ Val(da.marketInstability) = expected.marketInstability

\* submit(500, 300, 50, 20), the owner's request, the valid callback
C14_Witness ==
    /\ lastTx.op = "decryptAssessment"
    /\ lastTx.result = "ok"
    /\ lastTx.proof = "valid"
    /\ lastTx.cleartexts = abiEncode(decryptionRequests[lastTx.requestId + 1].ciphertexts)
    /\ decryptedAssessments[requestToExchangeId[lastTx.requestId]]
          = [liquidityImpact |-> <<0, 2>>, flashCrashRisk |-> <<0, 100>>,
             marketInstability |-> <<0, 70>>, isRevealed |-> TRUE]

\* C15: after a successful assessment callback for requestId r, r no longer maps
\* to a pending request.
C15_CallbackConsumesRequest ==
    (lastTx.op = "decryptAssessment" /\ lastTx.result = "ok")
        => Read(requestToExchangeId, lastTx.requestId, 0) = 0

\* C16: every request the engine accepted, of either kind, is recorded under its
\* requestId with the exchangeId it was made for.
C16_EveryRequestRecorded ==
    \A r \in 0..(Len(decryptionRequests) - 1) :
        /\ r \in DOMAIN requestToExchangeId
        /\ requestToExchangeId[r] = decryptionRequests[r + 1].exchangeId

\* C17: an assessment callback for a known requestId whose proof does not verify
\* fails with InvalidProof, whether or not the assessment is already revealed.
C17_InvalidProofFirst ==
    (/\ lastTx.op = "decryptAssessment"
     /\ lastTx.requestId \in DOMAIN requestToExchangeId
     /\ ~checkSignatures(Cur, lastTx.requestId, lastTx.cleartexts, lastTx.proof))
        => lastTx.result = "InvalidProof"

\* C18: the order book and the risk assessment stored for an exchangeId are
\* never changed or removed by any later step.
C18_EncryptedRecordsWriteOnce ==
    [][\A id \in DOMAIN orderBooks :
          /\ id \in DOMAIN orderBooks'
          /\ orderBooks'[id] = orderBooks[id]
          /\ id \in DOMAIN riskAssessments
          /\ id \in DOMAIN riskAssessments'
          /\ riskAssessments'[id] = riskAssessments[id]]_vars

\* a later submission, after a registerExchange, a request and a reveal for the
\* first order book
C18_Witness ==
    /\ lastTx.op = "submitEncryptedOrderBook"
    /\ lastTx.result = "ok"
    /\ exchangeCount = 3
    /\ DOMAIN orderBooks = {1, 3}
    /\ orderBooks[1].timestamp < orderBooks[3].timestamp
    /\ Revealed(1)

\* C19: a successful assessment callback for requestId r changes the decrypted
\* assessment of the exchangeId r was issued for and nothing else among the
\* decrypted assessments, the order books, the risk assessments and exchangeCount.
C19_CallbackFrame ==
    [][(lastTx'.op = "decryptAssessment" /\ lastTx'.result = "ok")
          => /\ lastTx'.requestId < Len(decryptionRequests)
             /\ LET id == decryptionRequests[lastTx'.requestId + 1].exchangeId
                IN  /\ decryptionRequests[lastTx'.requestId + 1].selector = "decryptAssessment"
                    /\ Read(decryptedAssessments', id, ZeroDecryptedAssessment).isRevealed
                    /\ ~Revealed(id)
                    /\ \A other \in (0..(exchangeCount + 1)) \ {id} :
                          Read(decryptedAssessments', other, ZeroDecryptedAssessment)
                              = Read(decryptedAssessments, other, ZeroDecryptedAssessment)
                    /\ DOMAIN decryptedAssessments' = DOMAIN decryptedAssessments
             /\ UNCHANGED <<orderBooks, riskAssessments, exchangeCount>>]_vars

\* a reveal of the second order book's assessment by request 0, next to the
\* first order book, which has a request of its own and stays unrevealed
C19_Witness ==
    /\ lastTx.op = "decryptAssessment"
    /\ lastTx.result = "ok"
    /\ lastTx.requestId = 0
    /\ DOMAIN orderBooks = {1, 2}
    /\ requestToExchangeId = (0 :> 2) @@ (1 :> 1)
    /\ Revealed(2)
    /\ ~Revealed(1)

\* C20: neither requestOrderBookDecryption nor decryptOrderBook, with whatever
\* arguments and outcome, changes an order book, a risk assessment or a
\* decrypted assessment.
C20_OrderBookRevealFrame ==
    [][lastTx'.op \in {"requestOrderBookDecryption", "decryptOrderBook"}
          => UNCHANGED <<orderBooks, riskAssessments, decryptedAssessments>>]_vars

\* an accepted order-book callback for an unrevealed order book
C20_Witness ==
    /\ lastTx.op = "decryptOrderBook"
    /\ lastTx.result = "ok"
    /\ lastTx.requestId < Len(decryptionRequests)
    /\ decryptionRequests[lastTx.requestId + 1].selector = "decryptOrderBook"
    /\ lastTx.cleartexts = abiEncode(decryptionRequests[lastTx.requestId + 1].ciphertexts)
    /\ ~Revealed(decryptionRequests[lastTx.requestId + 1].exchangeId)
    /\ decryptionRequests[lastTx.requestId + 1].exchangeId \in DOMAIN orderBooks

\* C21: a submission, successful or not, issues no decryption request to the
\* engine and records no pending request; every request the engine holds, and
\* every pending request recorded, was made by the owner of an order book
\* stored before it.
C21_SubmissionRequestsNothing ==
    /\ [][lastTx'.op = "submitEncryptedOrderBook"
             => UNCHANGED <<decryptionRequests, requestToExchangeId>>]_vars
    /\ [](\A i \in 1..Len(decryptionRequests) :
             /\ decryptionRequests[i].exchangeId \in DOMAIN orderBooks
             /\ decryptionRequests[i].sender = Owner(decryptionRequests[i].exchangeId))
    /\ [](\A r \in DOMAIN requestToExchangeId :
             /\ r < Len(decryptionRequests)
             /\ decryptionRequests[r + 1].exchangeId = requestToExchangeId[r])

\* a successful submission while requests for an earlier order book are
\* outstanding: the new exchangeId has none
C21_Witness ==
    /\ lastTx.op = "submitEncryptedOrderBook"
    /\ lastTx.result = "ok"
    /\ exchangeCount \in DOMAIN orderBooks
    /\ Len(decryptionRequests) = 2
    /\ DOMAIN requestToExchangeId # {}
    /\ \A i \in 1..Len(decryptionRequests) : decryptionRequests[i].exchangeId # exchangeCount

\* C22: exchangeCount is the number of stored order books, every id in
\* 1..exchangeCount has an order book, and so the first successful submission
\* is stored under exchangeId 1.
C22_CounterCountsSubmissions ==
    /\ getExchangeCount(Cur) = Cardinality(DOMAIN orderBooks)
    /\ \A id \in 1..exchangeCount : id \in DOMAIN orderBooks
    /\ (orderBooks # <<>>) => 1 \in DOMAIN orderBooks

\* C23: the event log holds, for every stored order book, exactly one
\* RiskAnalysisCompleted(exchangeId) and, after it, exactly one
\* OrderBookSubmitted(exchangeId, owner, timestamp); an AssessmentDecrypted(exchangeId)
\* comes after both; no event names an exchangeId without an order book, so a
\* failed submission has emitted nothing.
C23_EventStream ==
    /\ \A id \in DOMAIN orderBooks :
          \E i, j \in 1..Len(events) :
              /\ EventsNamed("RiskAnalysisCompleted") \cap EventsOf(id) = {i}
              /\ EventsNamed("OrderBookSubmitted") \cap EventsOf(id) = {j}
              /\ i < j
              /\ events[i] = Event("RiskAnalysisCompleted", id, ZeroAddress, 0)
              /\ events[j] = Event("OrderBookSubmitted", id, orderBooks[id].exchange,
                                   orderBooks[id].timestamp)
              /\ \A k \in EventsNamed("AssessmentDecrypted") \cap EventsOf(id) : j < k
    /\ \A k \in 1..Len(events) : events[k].exchangeId \in DOMAIN orderBooks
    /\ \A k \in 1..Len(events) :
          events[k].name \in {"RiskAnalysisCompleted", "OrderBookSubmitted", "AssessmentDecrypted"}

\* a failed submission after two successful ones and a reveal: five events
C23_Witness ==
    /\ lastTx.op = "submitEncryptedOrderBook"
    /\ lastTx.result = "EngineFailure"
    /\ Len(events) = 5
    /\ Cardinality(DOMAIN orderBooks) = 2
    /\ EventsNamed("AssessmentDecrypted") # {}

\* the outcome of delivering, in the current state, the decryption of request
\* r's handles with a valid proof
GenuineDelivery(r) ==
    decryptAssessment(Cur, r, abiEncode(decryptionRequests[r + 1].ciphertexts), "valid")

\* C24: when decryptAssessment has just failed with InvalidProof or
\* MalformedCleartext for a recorded request r, r is still recorded, its
\* exchangeId is unrevealed, and a delivery for r with a valid proof and
\* well-formed cleartext succeeds and reveals it; and in every state such a
\* delivery succeeds for every recorded request of an unrevealed exchangeId.
C24_FailedCallbackKeepsRequest ==
    /\ (/\ lastTx.op = "decryptAssessment"
        /\ lastTx.result \in {"InvalidProof", "MalformedCleartext"})
          => /\ Read(requestToExchangeId, lastTx.requestId, 0) # 0
             /\ ~Revealed(requestToExchangeId[lastTx.requestId])
             /\ GenuineDelivery(lastTx.requestId).err = "ok"
             /\ GenuineDelivery(lastTx.requestId).st.decryptedAssessments[
                    requestToExchangeId[lastTx.requestId]].isRevealed
    /\ \A r \in DOMAIN requestToExchangeId :
          (requestToExchangeId[r] # 0 /\ ~Revealed(requestToExchangeId[r]))
              => /\ GenuineDelivery(r).err = "ok"
                 /\ GenuineDelivery(r).st.decryptedAssessments[requestToExchangeId[r]].isRevealed

\* a callback that failed on undecodable cleartext under a valid proof, with
\* another request recorded for a second order book
C24_Witness ==
    /\ lastTx.op = "decryptAssessment"
    /\ lastTx.result = "MalformedCleartext"
    /\ lastTx.cleartexts = Malformed
    /\ lastTx.requestId = 1
    /\ requestToExchangeId = (0 :> 2) @@ (1 :> 1)
    /\ ~Revealed(1)

\* C25: for an exchangeId without an order book (0, an id above exchangeCount,
\* an id registerExchange handed out without a submission), both request
\* functions fail with Unauthorized for every caller and leave the state, the
\* engine's requests and the recorded requests included, as it was.
C25_NoOrderBookNoRequest ==
    /\ \A sender \in Principals :
          \A exchangeId \in (0..(exchangeCount + 1)) \ DOMAIN orderBooks :
              /\ requestAssessmentDecryption(Cur, sender, exchangeId)
                     = Revert(Cur, "Unauthorized")
              /\ requestOrderBookDecryption(Cur, sender, exchangeId)
                     = Revert(Cur, "Unauthorized")
    /\ (/\ lastTx.op \in {"requestAssessmentDecryption", "requestOrderBookDecryption"}
        /\ lastTx.exchangeId \notin DOMAIN orderBooks)
          => /\ lastTx.result = "Unauthorized"
             /\ \A i \in 1..Len(decryptionRequests) :
                   decryptionRequests[i].exchangeId # lastTx.exchangeId
             /\ \A r \in DOMAIN requestToExchangeId :
                   requestToExchangeId[r] # lastTx.exchangeId

\* the owner of order book 2 asks for id 1, which registerExchange handed out
\* without a submission
C25_Witness ==
    /\ lastTx.op = "requestAssessmentDecryption"
    /\ lastTx.exchangeId = 1
    /\ DOMAIN orderBooks = {2}
    /\ lastTx.sender = Owner(2)
    /\ lastTx.result = "Unauthorized"
    /\ decryptionRequests # <<>>

\* C26: when the oracle answers every assessment request, every exchangeId for
\* which a request is recorded is eventually revealed; a recorded request is
\* never removed, and nothing but a decryptAssessment call reveals (no timeout,
\* no cancellation).
C26_FairOracleReveals ==
    /\ \A id \in 1..MaxCalls :
          (\E r \in DOMAIN requestToExchangeId : requestToExchangeId[r] = id) ~> Revealed(id)
    /\ [][\A r \in DOMAIN requestToExchangeId :
             r \in DOMAIN requestToExchangeId' /\ requestToExchangeId'[r] = requestToExchangeId[r]]_vars
    /\ [][\A id \in 1..MaxCalls :
             (~Revealed(id) /\ Read(decryptedAssessments', id, ZeroDecryptedAssessment).isRevealed)
                 => (lastTx'.op = "decryptAssessment" /\ lastTx'.result = "ok")]_vars

\* the single request of the single order book, answered
C26_Witness ==
    /\ exchangeCount = 1
    /\ Len(decryptionRequests) = 1
    /\ requestToExchangeId = (0 :> 1)
    /\ Revealed(1)
    /\ lastTx.op = "decryptAssessment"
    /\ lastTx.result = "ok"
    /\ lastTx.cleartexts = abiEncode(decryptionRequests[1].ciphertexts)

\* hi * 2^16 + lo = 0, for lo within a few multiples of 2^16
IsZero(hi, lo) == lo % Limb = 0 /\ hi + (lo \div Limb) = 0

IsU32(u) == u[1] \in 0..(Limb - 1) /\ u[2] \in 0..(Limb - 1)

\* liquidityImpact = ((bid - ask) mod 2^32) div 100:
\* bid - ask + k * 2^32 = 100 * liquidityImpact + rest, with k = 1 exactly when bid < ask
IsLiquidityImpact(li, bid, ask) ==
    \E rest \in 0..99 :
        IsZero(bid[1] - ask[1] + (IF Less(bid, ask) THEN Limb ELSE 0) - 100 * li[1],
               bid[2] - ask[2] - 100 * li[2] - rest)

\* flashCrashRisk = (flow * 2) mod 2^32
IsFlashCrashRisk(fcr, flow) ==
    \E k \in 0..1 : IsZero(2 * flow[1] - fcr[1] - k * Limb, 2 * flow[2] - fcr[2])

\* marketInstability = (volatility * 3 + flow div 5) mod 2^32:
\* flow = 5 * (marketInstability - 3 * volatility + k * 2^32) + rest
IsMarketInstability(mi, flow, volatility) ==
    \E k \in 0..3, rest \in 0..4 :
        IsZero(flow[1] - 5 * mi[1] + 15 * volatility[1] - 5 * k * Limb,
               flow[2] - 5 * mi[2] + 15 * volatility[2] - rest)

StoredKeys ==
    LET keysBytes == getData(store, RiskDataKeysKey)
    IN  IF Len(keysBytes) > 0
        THEN { JSONparse(keysBytes)[i] : i \in 1..Len(JSONparse(keysBytes)) }
        ELSE {}

\* C28: every key listed under risk_data_keys has a stored risk_data_<key>
\* record, in every state of every interleaving, failed runs included.
C28_ListedKeysHaveRecords ==
    \A key \in StoredKeys : Len(getData(store, RiskDataKey(key))) > 0

\* a key is listed while the other client's run, which has written its record
\* and not yet its key, is under way, after a run that failed
C28_Witness ==
    /\ StoredKeys # {}
    /\ \E c \in Clients : pc[c] = "setKeys" /\ dataId[c] \notin StoredKeys
    /\ \E id \in 1..dataIdCount : RiskDataKey(id) \notin DOMAIN store

\* C29: the dataId of every run that reported success is listed under
\* risk_data_keys.
C29_NoLostKeys ==
    \A c \in Clients : transactionStatus[c] = "success" => dataId[c] \in StoredKeys

====
